---- MODULE Spec2Model ----
(***************************************************************************)
(* Meme Coin Launch Studio (src/meme_scoring_app.py): the scoring          *)
(* functions of the "Score Idea" tab and the record store kept in          *)
(* st.session_state.ideas with its backing file ideas.json.                *)
(*                                                                         *)
(* One action is one Streamlit script run: the button handler that fired,  *)
(* the save_ideas call it makes, and the rendering of the Launch Checklist *)
(* tab that every run performs afterwards.                                 *)
(***************************************************************************)
EXTENDS Integers, Sequences, FiniteSets, TLC

VARIABLES
    scores,          \* Score tab: the dict `scores` after the eight sliders
    total_score,     \* Score tab: sum(scores.values())
    tier,            \* Score tab: rate_score(total_score)
    readiness,       \* Score tab: compute_meme_readiness(scores)
    weak_dims,       \* Score tab: the list weak_dims, line 370
    written,         \* Score tab: the st.write lines of the suggestions section
    auto_input,      \* Score tab: the name and narrative the scores were prefilled from
    ideas,           \* st.session_state.ideas: the records, in list order
    dicts,           \* the checklist dict objects the records refer to
    file,            \* ideas.json
    clock,           \* datetime.utcnow(), as a count of the stamps taken
    checklist_select,\* the widget state of the Launch Checklist selectbox
    up,              \* the session holds st.session_state.ideas
    last             \* the branch the latest run's handler took

scoreVars == <<scores, total_score, tier, readiness, weak_dims, written, auto_input>>
storeVars == <<ideas, dicts, file, clock, checklist_select, up, last>>
vars == <<scores, total_score, tier, readiness, weak_dims, written, auto_input,
          ideas, dicts, file, clock, checklist_select, up, last>>

\* Bounds of the exploration.
MaxIdeas == 3        \* records in the store
MaxClock == 3        \* timestamps taken (saves and clones)

-----------------------------------------------------------------------------
(* The rubric *)

\* The keys of the scores dict, in the order the dict literal and the sliders
\* insert them.
CriteriaOrder ==
    << "Concept Clarity", "Remixability", "Cultural Bandwidth",
       "Reply-Bait Potential", "Conflict / Tension", "Status Signaling",
       "Narrative Hook", "Character / Symbol Strength" >>

Criteria == { CriteriaOrder[i] : i \in 1..Len(CriteriaOrder) }

\* st.slider(label, 0, 5, value): the range of every slider.
SliderMin == 0
SliderMax == 5
SliderRange == SliderMin..SliderMax

ScoreSets == [Criteria -> SliderRange]

\* The manual-mode dict: every criterion 3.
ManualScores == [c \in Criteria |-> 3]

-----------------------------------------------------------------------------
(* rate_score *)

rate_score_strict(score) ==
    IF score > 32 THEN "S-Tier"
    ELSE IF score >= 28 THEN "A-Tier"
    ELSE IF score >= 22 THEN "B-Tier"
    ELSE "Weak"

rate_score(score) ==
    IF score >= 32 THEN "S-Tier"
    ELSE IF score >= 28 THEN "A-Tier"
    ELSE IF score >= 22 THEN "B-Tier"
    ELSE "Weak"

Tiers == {"S-Tier", "A-Tier", "B-Tier", "Weak"}

-----------------------------------------------------------------------------
(* sum(scores.values()) *)

RECURSIVE SumOver(_, _)
SumOver(f, S) ==
    IF S = {} THEN 0
    ELSE LET c == CHOOSE x \in S : TRUE
         IN  f[c] + SumOver(f, S \ {c})

sum_values_drop_last(sc) == SumOver(sc, DOMAIN sc \ {"Character / Symbol Strength"})

sum_values(sc) == SumOver(sc, DOMAIN sc)

-----------------------------------------------------------------------------
(* compute_meme_readiness.  The float arithmetic is carried out on exact   *)
(* fractions <<numerator, denominator>>.  The exact value of readiness*100 *)
(* is (8*se + 6*mf + 9*aa)/3, whose fractional part is 0, 1/3 or 2/3, so   *)
(* the double the code rounds is never within 1/6 of a tie and rounds to   *)
(* the same integer as the exact fraction.                                 *)

Frac(n, d) == <<n, d>>
FracAdd(a, b) == <<a[1] * b[2] + b[1] * a[2], a[2] * b[2]>>
FracMul(a, b) == <<a[1] * b[1], a[2] * b[2]>>

\* Python 3 round(): to the nearest integer, ties to the even one.
\* Only non-negative fractions occur.
round(x) ==
    LET q == x[1] \div x[2]
        r2 == 2 * (x[1] % x[2])
    IN  IF r2 < x[2] THEN q
        ELSE IF r2 > x[2] THEN q + 1
        ELSE IF q % 2 = 0 THEN q ELSE q + 1

compute_meme_readiness_swapped(sc) ==
    LET mf == sc["Concept Clarity"] + sc["Remixability"] + sc["Cultural Bandwidth"]
        se == sc["Reply-Bait Potential"] + sc["Conflict / Tension"] + sc["Status Signaling"]
        aa == sc["Narrative Hook"] + sc["Character / Symbol Strength"]
        mf_norm == Frac(mf, 15)
        se_norm == Frac(se, 15)
        aa_norm == Frac(aa, 10)
        r == FracAdd(FracAdd(FracMul(Frac(3, 10), se_norm),
                             FracMul(Frac(4, 10), mf_norm)),
                     FracMul(Frac(3, 10), aa_norm))
    IN  round(FracMul(r, Frac(100, 1)))

compute_meme_readiness(sc) ==
    LET mf == sc["Concept Clarity"] + sc["Remixability"] + sc["Cultural Bandwidth"]
        se == sc["Reply-Bait Potential"] + sc["Conflict / Tension"] + sc["Status Signaling"]
        aa == sc["Narrative Hook"] + sc["Character / Symbol Strength"]
        mf_norm == Frac(mf, 15)
        se_norm == Frac(se, 15)
        aa_norm == Frac(aa, 10)
        r == FracAdd(FracAdd(FracMul(Frac(4, 10), se_norm),
                             FracMul(Frac(3, 10), mf_norm)),
                     FracMul(Frac(3, 10), aa_norm))
    IN  round(FracMul(r, Frac(100, 1)))

-----------------------------------------------------------------------------
(* Strings.  A name is the sequence of its characters, so that strip(),    *)
(* lower() and the " (Clone)" suffix act on it as they do in Python.       *)

Str_a == <<"a">>
Str_b == <<"b">>
Str_A_clone_sp == <<"A", " ", "(", "c", "l", "o", "n", "e", ")", " ">>
Str_empty == <<>>

\* " (Clone)", line 471.
CloneSuffix == <<" ", "(", "C", "l", "o", "n", "e", ")">>

\* str.isspace() of one character of the alphabet used.
IsSpace(c) == c = " "

\* str.lower() on one character of the alphabet used.
LowerChar(c) ==
    CASE c = "A" -> "a"
      [] c = "C" -> "c"
      [] c = "D" -> "d"
      [] c = "E" -> "e"
      [] c = "L" -> "l"
      [] c = "O" -> "o"
      [] c = "P" -> "p"
      [] c = "R" -> "r"
      [] c = "V" -> "v"
      [] OTHER -> c

lower(s) == [i \in 1..Len(s) |-> LowerChar(s[i])]

RECURSIVE lstrip(_)
lstrip(s) ==
    IF s # <<>> /\ IsSpace(Head(s)) THEN lstrip(Tail(s)) ELSE s

RECURSIVE rstrip(_)
rstrip(s) ==
    IF s # <<>> /\ IsSpace(s[Len(s)]) THEN rstrip(SubSeq(s, 1, Len(s) - 1)) ELSE s

strip(s) == rstrip(lstrip(s))

\* name.strip().lower(), the key find_idea_by_name and Save / Update compare.
NameKey(name) == lower(strip(name))

-----------------------------------------------------------------------------
(* heuristic_auto_score, lines 74-148.  Texts are sequences of characters, *)
(* so that lower(), len() and the `in` substring test are computed.        *)

\* k in text: k occurs in text as a contiguous run of characters.
contains(text, k) ==
    \E i \in 1..(Len(text) - Len(k) + 1) :
        \A j \in 1..Len(k) : text[i + j - 1] = k[j]

\* sum(w in text for w in words): one for every list entry found in text.
RECURSIVE count_in(_, _)
count_in(words, text) ==
    IF words = <<>> THEN 0
    ELSE (IF contains(text, Head(words)) THEN 1 ELSE 0) + count_in(Tail(words), text)

\* any(k in text for k in phrases)
any_in(phrases, text) == \E i \in 1..Len(phrases) : contains(text, phrases[i])

min(a, b) == IF a <= b THEN a ELSE b
max(a, b) == IF a >= b THEN a ELSE b

\* clamp(x, lo=0, hi=5), lines 84-85.
clamp(x) == max(0, min(5, x))

\* clarity_phrases, line 94.
clarity_phrases ==
    << <<"c", "o", "i", "n", " ", "f", "o", "r">>,
       <<"t", "h", "i", "s", " ", "c", "o", "i", "n", " ", "i", "s", " ", "f", "o", "r">>,
       <<"o", "f", "f", "i", "c", "i", "a", "l", " ", "c", "o", "i", "n", " ", "o", "f">> >>

\* remix_words, lines 98-99.
remix_words ==
    << <<"d", "e", "v">>,
       <<"d", "e", "v", "e", "l", "o", "p", "e", "r">>,
       <<"a", "p", "p", "l", "i", "c", "a", "n", "t">>,
       <<"v", "i", "s", "a">>,
       <<"w", "h", "a", "l", "e">>,
       <<"u", "n", "i", "o", "n">>,
       <<"b", "o", "s", "s">>,
       <<"f", "o", "u", "n", "d", "e", "r">>,
       <<"w", "o", "r", "k", "e", "r">>,
       <<"s", "t", "u", "d", "e", "n", "t">>,
       <<"r", "e", "j", "e", "c", "t", "e", "d">>,
       <<"h", "i", "r", "i", "n", "g">> >>

\* global_pain_words, lines 104-105.
global_pain_words ==
    << <<"v", "i", "s", "a">>,
       <<"j", "o", "b">>,
       <<"s", "a", "l", "a", "r", "y">>,
       <<"b", "o", "s", "s">>,
       <<"t", "a", "x">>,
       <<"r", "e", "n", "t">>,
       <<"q", "u", "e", "u", "e">>,
       <<"r", "e", "j", "e", "c", "t", "e", "d">>,
       <<"g", "h", "o", "s", "t", "e", "d">>,
       <<"w", "o", "r", "k">>,
       <<"b", "u", "r", "n", "o", "u", "t">> >>

\* reply_words, line 110.
reply_words ==
    << <<"s", "t", "o", "r", "y">>,
       <<"c", "o", "n", "f", "e", "s", "s", "i", "o", "n">>,
       <<"s", "h", "a", "r", "e">>,
       <<"r", "e", "p", "l", "y">>,
       <<"t", "e", "l", "l">>,
       <<"c", "h", "a", "t">> >>

\* conflict_words, lines 115-116.
conflict_words ==
    << <<"b", "o", "s", "s">>,
       <<"f", "o", "u", "n", "d", "e", "r">>,
       <<"h", "r">>,
       <<"a", "t", "s">>,
       <<"e", "m", "b", "a", "s", "s", "y">>,
       <<"g", "o", "v", "e", "r", "n", "m", "e", "n", "t">>,
       <<"l", "a", "n", "d", "l", "o", "r", "d">>,
       <<"s", "y", "s", "t", "e", "m">>,
       <<"r", "e", "j", "e", "c", "t", "e", "d">>,
       <<"g", "h", "o", "s", "t", "e", "d">>,
       <<"u", "n", "d", "e", "r", "p", "a", "i", "d">> >>

\* status_words, lines 121-122.
status_words ==
    << <<"d", "e", "v">>,
       <<"d", "e", "v", "e", "l", "o", "p", "e", "r">>,
       <<"a", "p", "p", "l", "i", "c", "a", "n", "t">>,
       <<"f", "o", "u", "n", "d", "e", "r">>,
       <<"i", "m", "m", "i", "g", "r", "a", "n", "t">>,
       <<"w", "o", "r", "k", "e", "r">>,
       <<"s", "u", "r", "v", "i", "v", "o", "r">>,
       <<"u", "n", "i", "o", "n">>,
       <<"c", "o", "m", "m", "u", "n", "i", "t", "y">> >>

\* hook_words, lines 127-128.
hook_words ==
    << <<"f", "i", "n", "a", "l", "l", "y">>,
       <<"o", "f", "f", "i", "c", "i", "a", "l">>,
       <<"r", "e", "v", "o", "l", "u", "t", "i", "o", "n">>,
       <<"u", "n", "i", "o", "n">>,
       <<"s", "u", "r", "v", "i", "v", "o", "r">>,
       <<"e", "c", "o", "n", "o", "m", "y">>,
       <<"q", "u", "e", "u", "e">>,
       <<"l", "a", "u", "n", "c", "h">>,
       <<"t", "o", "k", "e", "n">> >>

\* symbol_words, lines 133-134.
symbol_words ==
    << <<"t", "u", "r", "t", "l", "e">>,
       <<"w", "h", "a", "l", "e">>,
       <<"g", "h", "o", "s", "t">>,
       <<"c", "o", "p">>,
       <<"b", "a", "t", "t", "e", "r", "y">>,
       <<"b", "u", "t", "t">>,
       <<"a", "p", "p", "l", "i", "c", "a", "n", "t">>,
       <<"d", "e", "v">>,
       <<"r", "o", "b", "o", "t">>,
       <<"q", "u", "e", "u", "e">> >>

\* The dict a clamp left out of would return.
heuristic_auto_score_unclamped(name, narrative) ==
    LET text == lower(name \o <<" ">> \o narrative)
        length == Len(narrative)
        base == IF length < 60 THEN 2 ELSE IF length < 250 THEN 4 ELSE 3
        concept_clarity == IF any_in(clarity_phrases, text) THEN base + 1 ELSE base
    IN  [c \in Criteria |->
            CASE c = "Concept Clarity" -> concept_clarity
              [] c = "Remixability" -> 2 + count_in(remix_words, text)
              [] c = "Cultural Bandwidth" -> 2 + count_in(global_pain_words, text)
              [] c = "Reply-Bait Potential" -> 2 + count_in(reply_words, text)
              [] c = "Conflict / Tension" -> 1 + count_in(conflict_words, text)
              [] c = "Status Signaling" -> 2 + count_in(status_words, text)
              [] c = "Narrative Hook" -> 2 + count_in(hook_words, text)
              [] c = "Character / Symbol Strength" -> 2 + count_in(symbol_words, text)]

heuristic_auto_score(name, narrative) ==
    LET text == lower(name \o <<" ">> \o narrative)
        length == Len(narrative)
        base == IF length < 60 THEN 2 ELSE IF length < 250 THEN 4 ELSE 3
        concept_clarity == IF any_in(clarity_phrases, text) THEN base + 1 ELSE base
        remixability == clamp(2 + count_in(remix_words, text))
        cultural_bandwidth == clamp(2 + count_in(global_pain_words, text))
        reply_bait == clamp(2 + count_in(reply_words, text))
        conflict_tension == clamp(1 + count_in(conflict_words, text))
        status_signaling == clamp(2 + count_in(status_words, text))
        narrative_hook == clamp(2 + count_in(hook_words, text))
        character_strength == clamp(2 + count_in(symbol_words, text))
    IN  [c \in Criteria |->
            CASE c = "Concept Clarity" -> clamp(concept_clarity)
              [] c = "Remixability" -> remixability
              [] c = "Cultural Bandwidth" -> cultural_bandwidth
              [] c = "Reply-Bait Potential" -> reply_bait
              [] c = "Conflict / Tension" -> conflict_tension
              [] c = "Status Signaling" -> status_signaling
              [] c = "Narrative Hook" -> narrative_hook
              [] c = "Character / Symbol Strength" -> character_strength]

-----------------------------------------------------------------------------
(* The suggestions section of the Score tab, lines 370-390. *)

\* [k for k, v in scores.items() if v < 2]
RECURSIVE weak_list_below(_, _)
weak_list_below(order, sc) ==
    IF order = <<>> THEN <<>>
    ELSE (IF sc[Head(order)] < 2 THEN <<Head(order)>> ELSE <<>>)
             \o weak_list_below(Tail(order), sc)

\* [k for k, v in scores.items() if v <= 2]: the dict is walked in the order
\* its keys were inserted.
RECURSIVE weak_list(_, _)
weak_list(order, sc) ==
    IF order = <<>> THEN <<>>
    ELSE (IF sc[Head(order)] <= 2 THEN <<Head(order)>> ELSE <<>>)
             \o weak_list(Tail(order), sc)

SolidMessage ==
    "This idea looks structurally solid. Focus on launch timing, distribution, and execution."

\* The if / elif chain of lines 375-390: what st.write is called with for dim,
\* and nothing for a dim no branch names.
suggestion_lines(dim) ==
    IF dim = "Concept Clarity" THEN
        <<"- **Concept Clarity:** Reduce your narrative to one brutal, obvious sentence anyone can repeat.">>
    ELSE IF dim = "Remixability" THEN
        <<"- **Remixability:** Design 5+ meme formats, screenshots, or rituals people can reuse easily.">>
    ELSE IF dim = "Cultural Bandwidth" THEN
        <<"- **Cultural Bandwidth:** Swap niche references for universal pains (money, work, rejection, bureaucracy).">>
    ELSE IF dim = "Reply-Bait Potential" THEN
        <<"- **Reply-Bait Potential:** Add confession prompts, screenshot prompts, or pain-sharing prompts to the story.">>
    ELSE IF dim = "Conflict / Tension" THEN
        <<"- **Conflict / Tension:** Introduce a clear villain: boss, system, whale, embassy, landlord, etc.">>
    ELSE IF dim = "Status Signaling" THEN
        <<"- **Status Signaling:** Make holding the coin signal identity (dev, applicant, survivor, degen, etc.).">>
    ELSE IF dim = "Narrative Hook" THEN
        <<"- **Narrative Hook:** Write 5 fake headlines until one feels viral and punchy.">>
    ELSE IF dim = "Character / Symbol Strength" THEN
        <<"- **Character / Symbol Strength:** Attach a simple, iconic mascot people can draw, screenshot, and spam.">>
    ELSE <<>>

RECURSIVE write_each(_)
write_each(dims) ==
    IF dims = <<>> THEN <<>>
    ELSE suggestion_lines(Head(dims)) \o write_each(Tail(dims))

\* Lines 371-390: everything the section writes for the list weak.
write_suggestions(weak) ==
    IF weak = <<>> THEN <<SolidMessage>> ELSE write_each(weak)

-----------------------------------------------------------------------------
(* The texts heuristic_auto_score is run on. *)

\* st.text_input("Idea name") of an auto-scored idea.
Str_Coin == <<"C", "o", "i", "n">>
AutoNames == {Str_empty, Str_Coin}

\* The phrases a narrative is made of, in the order they are typed.
NarrativePieces ==
    << <<"f", "o", "r", " ", "t", "h", "e">>,
       <<"D", "E", "V", "E", "L", "O", "P", "E", "R">>,
       <<"b", "o", "s", "s", " ", "f", "o", "u", "n", "d", "e", "r">>,
       <<"r", "e", "j", "e", "c", "t", "e", "d", " ", "g", "h", "o", "s", "t", "e", "d">>,
       <<"h", "r", " ", "a", "t", "s">>,
       <<"u", "n", "i", "o", "n", " ", "q", "u", "e", "u", "e">>,
       <<"o", "f", "f", "i", "c", "i", "a", "l", " ", "c", "o", "i", "n", " ", "o", "f">>,
       <<"s", "t", "o", "r", "y", " ", "s", "t", "o", "r", "y">>,
       <<"s", "h", "a", "r", "e", " ", "r", "e", "p", "l", "y", " ", "t", "e", "l", "l", " ", "c", "h", "a", "t">>,
       <<"s", "u", "r", "v", "i", "v", "o", "r", " ", "t", "o", "k", "e", "n", " ", "w", "h", "a", "l", "e", " ", "r", "o", "b", "o", "t">> >>

MaxPieces == 8       \* the leading phrases of NarrativePieces a narrative draws on
MaxPadded == 3       \* the leading phrases a narrative filled to a threshold draws on

\* The phrases numbered in S, each followed by a space, in list order.
RECURSIVE join_pieces(_, _)
join_pieces(S, i) ==
    IF i > Len(NarrativePieces) THEN <<>>
    ELSE (IF i \in S THEN NarrativePieces[i] \o <<" ">> ELSE <<>>) \o join_pieces(S, i + 1)

\* t filled with "x" up to n characters.
pad(t, n) == t \o [i \in 1..(n - Len(t)) |-> "x"]

\* The lengths on either side of the thresholds of lines 88 and 90.
PadLengths == {59, 60, 249, 250}

\* Narratives as typed, and narratives filled up to a threshold length.
Narratives ==
    { join_pieces(S, 1) : S \in SUBSET (1..MaxPieces) }
        \cup { pad(join_pieces(S, 1), n) : S \in SUBSET (1..MaxPadded), n \in PadLengths }

-----------------------------------------------------------------------------
(* The inputs of the handlers. *)

\* st.text_input("Idea name"): the text is taken as typed.
NameInputs == {Str_empty, Str_a, Str_A_clone_sp}

\* One scores dict with a low total beside the manual-mode one.
LowScores == [c \in Criteria |-> IF c = "Conflict / Tension" THEN 1 ELSE 0]

\* ticker, narrative, the slider values and the notes of one Score tab form.
Payloads ==
    { [ticker |-> "", narrative |-> "", scores |-> ManualScores, notes |-> ""],
      [ticker |-> "$A", narrative |-> "story", scores |-> LowScores, notes |-> ""] }

\* st.text_area("Notes") of the vault.
NotesInputs == {"n2"}

-----------------------------------------------------------------------------
(* Checklist dicts. *)

\* default_checklist, lines 585-595.
default_checklist ==
    [k \in { "Narrative finalized", "Mascot selected", "Reply rituals defined",
             "First 10 posts drafted", "Pump.fun description ready",
             "Meme templates created", "Launch timing decided",
             "Seeding / influencer plan", "Pinned post / announcement ready" }
       |-> FALSE]

\* {} 
EmptyDict == [k \in {} |-> FALSE]

\* for k, v in default_checklist.items(): cl.setdefault(k, v)
setdefault_all(cl) ==
    [k \in (DOMAIN cl) \cup (DOMAIN default_checklist) |->
        IF k \in DOMAIN cl THEN cl[k] ELSE default_checklist[k]]

\* new_cl: the keys of cl, each with the value of its checkbox; `checked` is
\* the set of boxes the user leaves ticked.
new_cl(cl, checked) == [k \in DOMAIN cl |-> k \in checked]

\* The boxes the user ticks: none, or one.
CheckInputs == { {}, {"Mascot selected"} }

-----------------------------------------------------------------------------
(* Records and the store.  A record's checklist field holds a reference    *)
(* into dicts: clone.copy() is shallow, and Save / Update carries the old  *)
(* record's dict object over, so several records can hold one dict.        *)

\* new_entry, lines 405-417, with the fresh {} at reference ref.
new_entry(idea_name, p, timestamp, ref) ==
    [ name           |-> idea_name,
      ticker         |-> p.ticker,
      narrative      |-> p.narrative,
      scores         |-> p.scores,
      total_score    |-> sum_values(p.scores),
      tier           |-> rate_score(sum_values(p.scores)),
      meme_readiness |-> compute_meme_readiness(p.scores),
      notes          |-> p.notes,
      timestamp      |-> timestamp,
      checklist      |-> ref ]

\* [idea["name"] for idea in ideas]
Names(ids) == [i \in 1..Len(ids) |-> ids[i].name]

Options(ids) == { ids[i].name : i \in 1..Len(ids) }

\* find_idea_by_name, as the index of the record it returns (0 for None):
\* the first record whose trimmed, lower-cased name equals the trimmed,
\* lower-cased argument.  The loop of Save / Update, lines 421-429, makes the
\* same comparison and stops at the same record.
find_idea_by_name(ids, name) ==
    IF \E i \in 1..Len(ids) : NameKey(ids[i].name) = NameKey(name)
    THEN CHOOSE i \in 1..Len(ids) :
            /\ NameKey(ids[i].name) = NameKey(name)
            /\ \A j \in 1..(i - 1) : NameKey(ids[j].name) # NameKey(name)
    ELSE 0

\* The loops of Save notes and Save checklist: the index of the first record
\* whose name is exactly the selected one (0 when the loop ends unbroken).
find_exact(ids, name) ==
    IF \E i \in 1..Len(ids) : ids[i].name = name
    THEN CHOOSE i \in 1..Len(ids) :
            /\ ids[i].name = name
            /\ \A j \in 1..(i - 1) : ids[j].name # name
    ELSE 0

\* The references of the records, each once, in order of first use.
RECURSIVE RefOrder(_, _)
RefOrder(ids, seen) ==
    IF ids = <<>> THEN <<>>
    ELSE IF Head(ids).checklist \in seen THEN RefOrder(Tail(ids), seen)
    ELSE <<Head(ids).checklist>> \o RefOrder(Tail(ids), seen \cup {Head(ids).checklist})

\* Object identity up to renaming: dicts no record refers to are dropped and
\* the others renumbered in order of first use.
Normalise(ids, ds) ==
    LET order == RefOrder(ids, {})
        pos(r) == CHOOSE k \in 1..Len(order) : order[k] = r
    IN  [ ideas |-> [i \in 1..Len(ids) |->
                        [ids[i] EXCEPT !.checklist = pos(ids[i].checklist)]],
          dicts |-> [k \in 1..Len(order) |-> ds[order[k]]] ]

-----------------------------------------------------------------------------
(* ideas.json *)

NoFile == [kind |-> "absent", data |-> <<>>, readable |-> TRUE]

\* json.dump(ideas, f): every record with the contents of its checklist
\* dict written out in place; what records shared is not recorded.
json_dump(ids, ds) ==
    [i \in 1..Len(ids) |-> [ids[i] EXCEPT !.checklist = ds[ids[i].checklist]]]

\* save_ideas run to completion: open(IDEAS_FILE, "w") keeps the mode of an
\* existing file, and the whole array replaces its content.
save_ideas(f, data) ==
    [kind |-> "array", data |-> data, readable |-> f.readable]

\* save_ideas cut short after open(..., "w") has emptied the file and k
\* records have reached it: the closing bracket is missing.
save_ideas_cut(f, data, k) ==
    [kind |-> "truncated", data |-> SubSeq(data, 1, k), readable |-> f.readable]

\* load_ideas.  A missing file gives []; open() of a file the process may
\* not read raises PermissionError, which is not a JSONDecodeError; json.load
\* of a cut-off text raises JSONDecodeError, which gives []; a JSON value that
\* is not a list gives [].
load_ideas(f) ==
    IF f.kind = "absent" THEN [raised |-> FALSE, value |-> <<>>]
    ELSE IF ~f.readable THEN [raised |-> TRUE, value |-> <<>>]
    ELSE IF f.kind = "truncated" THEN [raised |-> FALSE, value |-> <<>>]
    ELSE IF f.kind = "array" THEN [raised |-> FALSE, value |-> f.data]
    ELSE [raised |-> FALSE, value |-> <<>>]

\* The list json.load builds: every record gets a dict object of its own.
Loaded(data) ==
    [ ideas |-> [i \in 1..Len(data) |-> [data[i] EXCEPT !.checklist = i]],
      dicts |-> [i \in 1..Len(data) |-> data[i].checklist] ]

-----------------------------------------------------------------------------
(* The button handlers.  Each gives the outcome of its part of the script  *)
(* run: the list and the dicts it leaves, the clock, whether it called     *)
(* save_ideas (always with the list it leaves), and what it was asked (op, *)
(* name) with the                                                          *)
(* branch it took: "rejected" (the empty-name warning), "replaced" (Save /  *)
(* Update found a record under the name), "not_found" (no record under the *)
(* selected name), or "done".  A session start leaves "loaded" or          *)
(* "load_raised", a process that died "crashed".                           *)

Outcome(ids, ds, clk, saved, op, name, branch) ==
    [ ideas |-> ids, dicts |-> ds, clock |-> clk, saved |-> saved,
      op |-> op, name |-> name, branch |-> branch ]

\* Save / Update as it would be without the "checklist" entry of the merged
\* dict: the new entry's own {} replaces the record's checklist.
SaveUpdate_fresh_checklist(ids, ds, clk, idea_name, p) ==
    IF idea_name = <<>>
        THEN Outcome(ids, ds, clk, FALSE, "save", idea_name, "rejected")
        ELSE LET timestamp == clk + 1
                 entry == new_entry(idea_name, p, timestamp, Len(ds) + 1)
                 i == find_idea_by_name(ids, idea_name)
             IN  IF i # 0
                 THEN Outcome([ids EXCEPT ![i] = entry], Append(ds, EmptyDict),
                              timestamp, TRUE, "save", idea_name, "replaced")
                 ELSE Outcome(Append(ids, entry), Append(ds, EmptyDict),
                              timestamp, TRUE, "save", idea_name, "done")

\* Save / Update as it would be without the `if not idea_name` check.
SaveUpdate_unchecked(ids, ds, clk, idea_name, p) ==
    LET timestamp == clk + 1
        entry == new_entry(idea_name, p, timestamp, Len(ds) + 1)
        i == find_idea_by_name(ids, idea_name)
    IN  IF i # 0
        THEN Outcome([ids EXCEPT ![i] =
                         [entry EXCEPT !.checklist = ids[i].checklist]],
                     ds, timestamp, TRUE, "save", idea_name, "replaced")
        ELSE Outcome(Append(ids, entry), Append(ds, EmptyDict),
                     timestamp, TRUE, "save", idea_name, "done")

\* "Save / Update Idea", lines 401-434.
SaveUpdate(ids, ds, clk, idea_name, p) ==
    IF idea_name = <<>>
        THEN Outcome(ids, ds, clk, FALSE, "save", idea_name, "rejected")
        ELSE LET timestamp == clk + 1
                 entry == new_entry(idea_name, p, timestamp, Len(ds) + 1)
                 i == find_idea_by_name(ids, idea_name)
             IN  IF i # 0
                 THEN Outcome([ids EXCEPT ![i] =
                                  [entry EXCEPT !.checklist = ids[i].checklist]],
                              ds, timestamp, TRUE, "save", idea_name, "replaced")
                 ELSE Outcome(Append(ids, entry), Append(ds, EmptyDict),
                              timestamp, TRUE, "save", idea_name, "done")

\* Clone as it would be without the new timestamp of line 472.
CloneIdea_unstamped(ids, ds, clk, selected_name) ==
    LET hit == find_idea_by_name(ids, selected_name)
    IN  IF hit # 0
        THEN LET selected_idea == ids[hit]
                 clone == [selected_idea EXCEPT
                              !.name = selected_idea.name \o CloneSuffix]
             IN  Outcome(Append(ids, clone), ds, clk, TRUE,
                         "clone", selected_name, "done")
        ELSE Outcome(ids, ds, clk, FALSE, "clone", selected_name, "not_found")

\* "Clone idea", lines 468-475.
CloneIdea(ids, ds, clk, selected_name) ==
    LET hit == find_idea_by_name(ids, selected_name)
    IN  IF hit # 0
        THEN LET selected_idea == ids[hit]
                 clone == [selected_idea EXCEPT
                              !.name = selected_idea.name \o CloneSuffix,
                              !.timestamp = clk + 1]
             IN  Outcome(Append(ids, clone), ds, clk + 1, TRUE,
                         "clone", selected_name, "done")
        ELSE Outcome(ids, ds, clk, FALSE, "clone", selected_name, "not_found")

\* Delete as it would be with ideas.pop(index) and -1 as the index of a name
\* that is not there: the last record goes.
DeleteIdea_pop(ids, ds, clk, selected_name) ==
    LET i == find_exact(ids, selected_name)
        at == IF i # 0 THEN i ELSE Len(ids)
    IN  Outcome(SubSeq(ids, 1, at - 1) \o SubSeq(ids, at + 1, Len(ids)), ds, clk,
                TRUE, "delete", selected_name,
                IF i # 0 THEN "done" ELSE "not_found")

\* "Delete idea", lines 477-481.
DeleteIdea(ids, ds, clk, selected_name) ==
    LET Keep(i) == i.name # selected_name
    IN  Outcome(SelectSeq(ids, Keep), ds, clk, TRUE, "delete", selected_name,
                IF \E i \in 1..Len(ids) : ~Keep(ids[i]) THEN "done" ELSE "not_found")

\* "Save notes", lines 484-497: the button exists only under
\* `if selected_idea:`.
SaveNotes(ids, ds, clk, selected_name, updated_notes) ==
    LET hit == find_idea_by_name(ids, selected_name)
        i == find_exact(ids, selected_name)
    IN  IF hit = 0
        THEN Outcome(ids, ds, clk, FALSE, "notes", selected_name, "not_found")
        ELSE Outcome(IF i # 0 THEN [ids EXCEPT ![i].notes = updated_notes] ELSE ids,
                     ds, clk, TRUE, "notes", selected_name, "done")

\* The Launch Checklist tab down to the checkboxes, lines 582-599: the
\* defaults are merged into the dict object of the record found.
MergeDefaults(ids, ds, name) ==
    LET hit == find_idea_by_name(ids, name)
    IN  IF hit = 0 THEN ds
        ELSE [ds EXCEPT ![ids[hit].checklist] = setdefault_all(ds[ids[hit].checklist])]

\* "Save checklist", lines 582-620: the button exists only under `if idea:`.
SaveChecklist(ids, ds, clk, name_for_checklist, checked) ==
    LET hit == find_idea_by_name(ids, name_for_checklist)
        i == find_exact(ids, name_for_checklist)
        merged == MergeDefaults(ids, ds, name_for_checklist)
    IN  IF hit = 0
        THEN Outcome(ids, ds, clk, FALSE, "checklist", name_for_checklist, "not_found")
        ELSE LET cl == merged[ids[hit].checklist]
             IN  IF i # 0
                 THEN Outcome([ids EXCEPT ![i].checklist = Len(merged) + 1],
                              Append(merged, new_cl(cl, checked)),
                              clk, TRUE, "checklist", name_for_checklist, "done")
                 ELSE Outcome(ids, merged, clk, TRUE,
                              "checklist", name_for_checklist, "done")

\* "Reset vault (delete all ideas)", lines 683-687.
ResetVault(ids, ds, clk) ==
    Outcome(<<>>, <<>>, clk, TRUE, "reset", <<>>, "done")

-----------------------------------------------------------------------------
(* The selectbox of the Launch Checklist tab. *)

\* No record to select: the tab shows st.info only.
NoSelection == <<"None">>

\* The value st.selectbox(..., key="checklist_select") returns in a run.  With
\* the option list unchanged it is the value held; a changed option list
\* makes it a new widget, which starts at its first option.
selectbox(old_options, ids, held) ==
    IF ids = <<>> THEN NoSelection
    ELSE IF Names(ids) = old_options /\ held \in Options(ids) THEN held
    ELSE ids[1].name

-----------------------------------------------------------------------------
(* Script runs. *)

\* The names a vault or checklist selectbox can hold, and beside them names
\* that no record matches, which reach the handlers' not-found branches.
AbsentNames(ids) == { n \in {Str_b} : find_idea_by_name(ids, n) = 0 }

Selectable(ids) == Options(ids) \cup AbsentNames(ids)

WithinBounds(o) == o.clock <= MaxClock /\ Len(o.ideas) <= MaxIdeas

SaveUpdateRuns ==
    { o \in { SaveUpdate(ideas, dicts, clock, n, p) : n \in NameInputs, p \in Payloads } :
        WithinBounds(o) }

CloneRuns ==
    { o \in { CloneIdea(ideas, dicts, clock, n) : n \in Selectable(ideas) } :
        ideas # <<>> /\ WithinBounds(o) }

DeleteRuns ==
    { o \in { DeleteIdea(ideas, dicts, clock, n) : n \in Selectable(ideas) } :
        ideas # <<>> }

SaveNotesRuns ==
    { o \in { SaveNotes(ideas, dicts, clock, n, t) :
                n \in Selectable(ideas), t \in NotesInputs } :
        ideas # <<>> }

\* The name is the one the checklist selectbox holds.
SaveChecklistRuns ==
    { o \in { SaveChecklist(ideas, dicts, clock, n, c) :
                n \in {checklist_select} \cup AbsentNames(ideas), c \in CheckInputs } :
        ideas # <<>> }

ResetVaultRuns == { ResetVault(ideas, dicts, clock) }

\* The rest of a script run after the handler o: save_ideas has written what
\* the handler passed it, and the Launch Checklist tab is rendered for the
\* value v of its selectbox.
Commit(o) ==
    LET v == selectbox(Names(ideas), o.ideas, checklist_select)
        n == Normalise(o.ideas, MergeDefaults(o.ideas, o.dicts, v))
    IN  /\ last' = o.branch
        /\ clock' = o.clock
        /\ checklist_select' = v
        /\ ideas' = n.ideas
        /\ dicts' = n.dicts
        /\ file' = IF o.saved THEN save_ideas(file, json_dump(o.ideas, o.dicts)) ELSE file
        /\ UNCHANGED <<up, scoreVars>>

SaveUpdateIdea == up /\ \E o \in SaveUpdateRuns : Commit(o)

CloneSelected == up /\ \E o \in CloneRuns : Commit(o)

DeleteSelected == up /\ \E o \in DeleteRuns : Commit(o)

SaveNotesSelected == up /\ \E o \in SaveNotesRuns : Commit(o)

SaveChecklistSelected == up /\ \E o \in SaveChecklistRuns : Commit(o)

ResetVaultClicked == up /\ \E o \in ResetVaultRuns : Commit(o)

\* The user picks another idea in the Launch Checklist selectbox.
SelectChecklistIdea ==
    /\ up
    /\ \E n \in Options(ideas) \ {checklist_select} :
          /\ dicts' = MergeDefaults(ideas, dicts, n)
          /\ checklist_select' = n
          /\ last' = "done"
    /\ UNCHANGED <<ideas, file, clock, up, scoreVars>>

\* A new session: lines 231-232 run load_ideas; if it raises, the script
\* stops there and the session has no list.
NewSession ==
    LET r == load_ideas(file)
        l == Loaded(r.value)
        v == IF l.ideas = <<>> THEN NoSelection ELSE l.ideas[1].name
    IN  /\ last' = IF r.raised THEN "load_raised" ELSE "loaded"
        /\ up' = ~r.raised
        /\ ideas' = l.ideas
        /\ dicts' = MergeDefaults(l.ideas, l.dicts, v)
        /\ checklist_select' = v
        /\ UNCHANGED <<file, clock, scoreVars>>

-----------------------------------------------------------------------------
(* The Score tab: one script run with the sliders at sc, lines 346-349. *)

ScoreRun(sc) ==
    /\ scores' = sc
    /\ total_score' = sum_values(sc)
    /\ tier' = rate_score(sum_values(sc))
    /\ readiness' = compute_meme_readiness(sc)
    /\ weak_dims' = weak_list(CriteriaOrder, sc)
    /\ written' = write_suggestions(weak_list(CriteriaOrder, sc))

\* The script reruns with the sliders where they are.
ScoreRerun ==
    /\ ScoreRun(scores)
    /\ UNCHANGED <<auto_input, ideas, dicts, file, clock, checklist_select, up, last>>

\* One script run in auto mode (line 293) on the name and narrative typed,
\* with the sliders left at the values they are prefilled with.
AutoScoreRun(name, narrative) ==
    /\ auto_input' = [name |-> name, narrative |-> narrative]
    /\ ScoreRun(heuristic_auto_score(name, narrative))

\* The script reruns in auto mode with the text inputs as they are.
AutoScoreRerun ==
    /\ AutoScoreRun(auto_input.name, auto_input.narrative)
    /\ UNCHANGED <<ideas, dicts, file, clock, checklist_select, up, last>>

-----------------------------------------------------------------------------
(* Specifications *)

InitStore ==
    /\ ideas = <<>>
    /\ dicts = <<>>
    /\ file = NoFile
    /\ clock = 0
    /\ checklist_select = NoSelection
    /\ up = TRUE
    /\ last = "loaded"

\* The Score tab after a run with the text inputs empty and the sliders at sc.
InitForm(sc) ==
    /\ auto_input = [name |-> Str_empty, narrative |-> Str_empty]
    /\ scores = sc
    /\ total_score = sum_values(sc)
    /\ tier = rate_score(sum_values(sc))
    /\ readiness = compute_meme_readiness(sc)
    /\ weak_dims = weak_list(CriteriaOrder, sc)
    /\ written = write_suggestions(weak_list(CriteriaOrder, sc))

\* The Score tab after a run in auto mode on the name and narrative typed.
InitAutoForm(name, narrative) ==
    LET sc == heuristic_auto_score(name, narrative)
    IN  /\ auto_input = [name |-> name, narrative |-> narrative]
        /\ scores = sc
        /\ total_score = sum_values(sc)
        /\ tier = rate_score(sum_values(sc))
        /\ readiness = compute_meme_readiness(sc)
        /\ weak_dims = weak_list(CriteriaOrder, sc)
        /\ written = write_suggestions(weak_list(CriteriaOrder, sc))

\* The store, from an empty vault.
Init == InitStore /\ InitForm(ManualScores)

Next ==
    \/ SaveUpdateIdea
    \/ CloneSelected
    \/ DeleteSelected
    \/ SaveNotesSelected
    \/ SaveChecklistSelected
    \/ ResetVaultClicked
    \/ SelectChecklistIdea

Spec == Init /\ [][Next]_vars

\* The Score tab with the sliders anywhere.
InitScore == InitStore /\ \E sc \in ScoreSets : InitForm(sc)

NextScore == ScoreRerun

SpecScore == InitScore /\ [][NextScore]_vars

\* The Score tab in auto mode, on every name and narrative of the input sets.
InitAuto ==
    InitStore /\ \E n \in AutoNames, t \in Narratives : InitAutoForm(n, t)

NextAuto == AutoScoreRerun

SpecAuto == InitAuto /\ [][NextAuto]_vars

-----------------------------------------------------------------------------
(* The file outside the handlers: a process that dies while save_ideas     *)
(* runs, and ideas.json changed from outside the program.                  *)

\* The runs that call save_ideas, among the handlers that create, replace
\* and remove records (the other handlers call it the same way).
SavingRuns ==
    { o \in SaveUpdateRuns \cup DeleteRuns \cup ResetVaultRuns : o.saved }

\* What ideas.json can hold when the process dies in save_ideas(data): the
\* old content (open not reached), a cut-off text (the file was emptied by
\* open and k records were flushed), or the whole array (all flushed).
CrashFiles(f, data) ==
    {f} \cup { save_ideas_cut(f, data, k) : k \in 0..Len(data) }
        \cup {save_ideas(f, data)}

\* The process dies during the save_ideas call of a handler; the session and
\* its list are gone.
CrashDuringSave ==
    /\ up
    /\ \E o \in SavingRuns :
          /\ file' \in CrashFiles(file, json_dump(o.ideas, o.dicts))
          /\ clock' = o.clock
    /\ last' = "crashed"
    /\ up' = FALSE
    /\ ideas' = <<>>
    /\ dicts' = <<>>
    /\ checklist_select' = NoSelection
    /\ UNCHANGED <<scoreVars>>

\* The read permission of ideas.json is taken away or given back.
EnvChmod ==
    /\ file.kind # "absent"
    /\ file' = [file EXCEPT !.readable = ~file.readable]
    /\ UNCHANGED <<ideas, dicts, clock, checklist_select, up, last,
                   scoreVars>>

\* ideas.json is overwritten by hand with a JSON value that is no array, or
\* with text that is no JSON.
EnvEdit ==
    /\ file.kind # "absent"
    /\ \E k \in {"notarray", "truncated"} :
          file' = [kind |-> k, data |-> <<>>, readable |-> file.readable]
    /\ UNCHANGED <<ideas, dicts, clock, checklist_select, up, last,
                   scoreVars>>

NextFile ==
    \/ SaveUpdateIdea
    \/ DeleteSelected
    \/ ResetVaultClicked
    \/ NewSession
    \/ CrashDuringSave
    \/ EnvChmod
    \/ EnvEdit

\* Saving, deleting and resetting, with sessions starting, the process dying
\* and the file changing under them.
SpecFile == Init /\ [][NextFile]_vars

-----------------------------------------------------------------------------
(* Scoring properties, checked under SpecScore. *)

\* C7: rate_score partitions the totals 0..40 into Weak, B, A and S with the
\* boundaries at 22, 28 and 32: below 22 Weak, 22..27 B, 28..31 A, 32 and
\* above S, and every total gets exactly one of the four.
C7_TierPartition ==
    /\ total_score \in 0..40
    /\ tier \in Tiers
    /\ (tier = "Weak") <=> (total_score < 22)
    /\ (tier = "B-Tier") <=> (total_score >= 22 /\ total_score <= 27)
    /\ (tier = "A-Tier") <=> (total_score >= 28 /\ total_score <= 31)
    /\ (tier = "S-Tier") <=> (total_score >= 32)

\* A total on the S boundary has been rated.
C7_Witness == total_score = 32 /\ tier = "S-Tier"

MemeFoundation ==
    scores["Concept Clarity"] + scores["Remixability"] + scores["Cultural Bandwidth"]

SocialEnergy ==
    scores["Reply-Bait Potential"] + scores["Conflict / Tension"]
        + scores["Status Signaling"]

AttentionAnchors ==
    scores["Narrative Hook"] + scores["Character / Symbol Strength"]

\* 300 times 100 * (0.4 * SE/15 + 0.3 * MF/15 + 0.3 * AA/10).
Weighted300 == 800 * SocialEnergy + 600 * MemeFoundation + 900 * AttentionAnchors

\* C8: for scores in 0..5, compute_meme_readiness is an integer in 0..100 no
\* further than one half from 100 * (0.4 * SE/15 + 0.3 * MF/15 + 0.3 * AA/10);
\* all zeros give 0 and all fives give 100.
C8_Readiness ==
    /\ readiness \in 0..100
    /\ 2 * (300 * readiness - Weighted300) <= 300
    /\ 2 * (Weighted300 - 300 * readiness) <= 300
    /\ (\A c \in Criteria : scores[c] = 0) => readiness = 0
    /\ (\A c \in Criteria : scores[c] = 5) => readiness = 100

\* A weighted value that is no integer (8/3) has been rounded.
C8_Witness ==
    /\ SocialEnergy = 1
    /\ MemeFoundation = 0
    /\ AttentionAnchors = 0
    /\ readiness = 3

\* The criteria scored 2 or less.
WeakSet == { c \in Criteria : scores[c] <= 2 }

\* The place of criterion c in the rubric order.
RubricIndex(c) == CHOOSE i \in 1..Len(CriteriaOrder) : CriteriaOrder[i] = c

\* C12: the weak-dimension list holds exactly the criteria scored 2 or less,
\* each once and in rubric order, and the section writes one line per listed
\* criterion, the fixed suggestion of that criterion, which no other
\* criterion has; when no criterion is scored 2 or less the section writes
\* the single "structurally solid" message and no suggestion.
C12_WeakDims ==
    /\ { weak_dims[i] : i \in 1..Len(weak_dims) } = WeakSet
    /\ Len(weak_dims) = Cardinality(WeakSet)
    /\ \A i, j \in 1..Len(weak_dims) :
          i < j => RubricIndex(weak_dims[i]) < RubricIndex(weak_dims[j])
    /\ WeakSet # {} =>
          /\ Len(written) = Len(weak_dims)
          /\ \A i \in 1..Len(weak_dims) :
                /\ <<written[i]>> = suggestion_lines(weak_dims[i])
                /\ written[i] # SolidMessage
                /\ \A j \in 1..Len(weak_dims) : i < j => written[i] # written[j]
    /\ WeakSet = {} => written = <<SolidMessage>>

\* A score set with one criterion at 2, a later one below 2, the rest at 3 or
\* more, and the two suggestions written in rubric order.
C12_Witness ==
    /\ scores["Remixability"] = 2
    /\ scores["Narrative Hook"] = 0
    /\ \A c \in Criteria \ {"Remixability", "Narrative Hook"} : scores[c] >= 3
    /\ weak_dims = <<"Remixability", "Narrative Hook">>
    /\ Len(written) = 2

-----------------------------------------------------------------------------
(* Auto-scoring properties, checked under SpecAuto. *)

\* The lower-cased text the keywords are looked for in.
AutoText == lower(auto_input.name \o <<" ">> \o auto_input.narrative)

\* The number of distinct entries of the list words present in AutoText.
Present(words) ==
    Cardinality({ words[i] : i \in { j \in 1..Len(words) : contains(AutoText, words[j]) } })

LengthBase ==
    IF Len(auto_input.narrative) < 60 THEN 2
    ELSE IF Len(auto_input.narrative) < 250 THEN 4
    ELSE 3

\* C11: heuristic_auto_score returns a dict with exactly the 8 criterion keys,
\* every value an integer in 0..5; Conflict / Tension is min(5, 1 + number of
\* its keywords present), each of the six other keyword criteria is
\* min(5, 2 + number of its keywords present), and Concept Clarity is the
\* length base (2, 4 or 3) plus 1 if a bonus phrase is present.
C11_AutoScore ==
    /\ DOMAIN scores = Criteria
    /\ Cardinality(DOMAIN scores) = 8
    /\ \A c \in DOMAIN scores : scores[c] \in 0..5
    /\ scores["Conflict / Tension"] = min(5, 1 + Present(conflict_words))
    /\ scores["Remixability"] = min(5, 2 + Present(remix_words))
    /\ scores["Cultural Bandwidth"] = min(5, 2 + Present(global_pain_words))
    /\ scores["Reply-Bait Potential"] = min(5, 2 + Present(reply_words))
    /\ scores["Status Signaling"] = min(5, 2 + Present(status_words))
    /\ scores["Narrative Hook"] = min(5, 2 + Present(hook_words))
    /\ scores["Character / Symbol Strength"] = min(5, 2 + Present(symbol_words))
    /\ scores["Concept Clarity"] =
           LengthBase + (IF Present(clarity_phrases) > 0 THEN 1 ELSE 0)

\* A narrative of 60 characters or more, scored with more conflict and remix
\* keywords than the cap lets through, and with a bonus phrase that begins in
\* the name and ends in the narrative.
C11_Witness ==
    /\ auto_input.name = Str_Coin
    /\ Len(auto_input.narrative) >= 60
    /\ 1 + Present(conflict_words) > 5
    /\ 2 + Present(remix_words) > 5
    /\ scores["Conflict / Tension"] = 5
    /\ scores["Remixability"] = 5
    /\ scores["Concept Clarity"] = 5
    /\ ~contains(lower(auto_input.narrative), clarity_phrases[1])
    /\ ~contains(lower(auto_input.narrative), clarity_phrases[2])
    /\ ~contains(lower(auto_input.narrative), clarity_phrases[3])

-----------------------------------------------------------------------------
(* Store properties, checked under Spec. *)

\* The store as its records read: every checklist field by its contents.
Before == json_dump(ideas, dicts)
After == json_dump(ideas', dicts')

\* C1: no two records of the store have names that are equal after trimming
\* surrounding whitespace and lower-casing.
C1_NamesUnique ==
    \A i, j \in 1..Len(ideas) :
        i # j => lower(strip(ideas[i].name)) # lower(strip(ideas[j].name))

\* The run of Save / Update with name n and form p.
SaveStep(n, p) == Commit(SaveUpdate(ideas, dicts, clock, n, p))

\* C2: a save under a name that matches a record (trimmed, case-insensitive)
\* replaces the first such record where it stands: the length of the store
\* and every other record are unchanged, the record takes the name and the
\* form saved, and its checklist reads as the prior record's did.
C2_Upsert ==
    [][ \A n \in NameInputs \ {<<>>}, p \in Payloads :
          LET h == find_idea_by_name(ideas, n)
          IN  (h # 0 /\ SaveStep(n, p)) =>
                 /\ Len(After) = Len(Before)
                 /\ \A i \in 1..Len(Before) : i # h => After[i] = Before[i]
                 /\ After[h].name = n
                 /\ After[h].ticker = p.ticker
                 /\ After[h].narrative = p.narrative
                 /\ After[h].scores = p.scores
                 /\ After[h].notes = p.notes
                 /\ After[h].checklist = Before[h].checklist
      ]_vars

\* A save has replaced a record that held a ticked checklist, and the record
\* still holds it.
C2_Witness ==
    /\ last = "replaced"
    /\ \E i \in 1..Len(ideas) :
          /\ ideas[i].timestamp = clock
          /\ \E k \in DOMAIN dicts[ideas[i].checklist] : dicts[ideas[i].checklist][k]

\* The run of Clone idea with the name sel selected.
CloneStep(sel) == ideas # <<>> /\ Commit(CloneIdea(ideas, dicts, clock, sel))

\* C5: a clone of the record found under the selected name appends one record
\* at the end, named as the source with " (Clone)" appended, stamped with a
\* new timestamp, and equal to the source in every other field; the records
\* that were there are unchanged.
C5_Clone ==
    [][ \A sel \in Selectable(ideas) :
          LET h == find_idea_by_name(ideas, sel)
          IN  (h # 0 /\ CloneStep(sel)) =>
                 /\ Len(After) = Len(Before) + 1
                 /\ \A i \in 1..Len(Before) : After[i] = Before[i]
                 /\ LET c == After[Len(After)]
                        src == Before[h]
                    IN  /\ c.name = src.name \o <<" ", "(", "C", "l", "o", "n", "e", ")">>
                        /\ \A i \in 1..Len(Before) : c.timestamp > Before[i].timestamp
                        /\ c.ticker = src.ticker
                        /\ c.narrative = src.narrative
                        /\ c.scores = src.scores
                        /\ c.total_score = src.total_score
                        /\ c.tier = src.tier
                        /\ c.meme_readiness = src.meme_readiness
                        /\ c.notes = src.notes
                        /\ c.checklist = src.checklist
      ]_vars

\* The store holds a record and, after it, its clone with the source's edited
\* notes and ticked checklist.
C5_Witness ==
    \E i, j \in 1..Len(ideas) :
        /\ i < j
        /\ ideas[j].name = ideas[i].name \o CloneSuffix
        /\ ideas[j].timestamp > ideas[i].timestamp
        /\ ideas[i].notes = "n2"
        /\ ideas[j].notes = "n2"
        /\ ideas[j].checklist = ideas[i].checklist
        /\ \E k \in DOMAIN dicts[ideas[i].checklist] : dicts[ideas[i].checklist][k]

\* C6: every record's total_score is the sum of its eight criterion scores
\* and lies in 0..40.
C6_TotalIsSum ==
    \A i \in 1..Len(ideas) :
        /\ ideas[i].total_score =
              ideas[i].scores["Concept Clarity"] + ideas[i].scores["Remixability"]
            + ideas[i].scores["Cultural Bandwidth"] + ideas[i].scores["Reply-Bait Potential"]
            + ideas[i].scores["Conflict / Tension"] + ideas[i].scores["Status Signaling"]
            + ideas[i].scores["Narrative Hook"]
            + ideas[i].scores["Character / Symbol Strength"]
        /\ ideas[i].total_score \in 0..40

\* The store holds a saved record, an updated one and a clone, with two
\* different totals.
C6_Witness ==
    /\ Len(ideas) = 3
    /\ \E i, j \in 1..Len(ideas) :
          /\ ideas[i].total_score = 24
          /\ ideas[j].total_score = 1

\* The run of a vault or checklist handler with a name that no record matches.
NotFoundStep(n) ==
    /\ ideas # <<>>
    /\ \/ Commit(DeleteIdea(ideas, dicts, clock, n))
       \/ Commit(CloneIdea(ideas, dicts, clock, n))
       \/ \E t \in NotesInputs : Commit(SaveNotes(ideas, dicts, clock, n, t))
       \/ \E c \in CheckInputs : Commit(SaveChecklist(ideas, dicts, clock, n, c))

\* C9: delete, clone, save-notes and save-checklist with a name that matches
\* no record, even trimmed and lower-cased, leave the store as it was: the
\* same records in the same order.
C9_NotFoundNoOp ==
    [][ \A n \in {Str_b} :
          ((\A i \in 1..Len(ideas) :
                lower(strip(ideas[i].name)) # lower(strip(n)))
            /\ NotFoundStep(n))
          => (ideas' = ideas /\ dicts' = dicts)
      ]_vars

\* A handler has found no record under the name and the store is not empty.
C9_Witness == last = "not_found" /\ Len(ideas) >= 2

\* The run of Save / Update with the name field empty.
EmptyNameStep == \E p \in Payloads : SaveStep(<<>>, p)

\* C10: a save with an empty name changes neither the store nor the file, and
\* no record of the store has an empty name.
C10_EmptyNameRejected ==
    [][ /\ EmptyNameStep => (ideas' = ideas /\ dicts' = dicts /\ file' = file)
        /\ \A i \in 1..Len(ideas') : ideas'[i].name # <<>>
      ]_vars

\* A save with an empty name has been turned away from a store with records.
C10_Witness == last = "rejected" /\ ideas # <<>> /\ file.data = json_dump(ideas, dicts)

\* A record as the user tells it from the others: its name and its stamp.
Ident(r) == <<r.name, r.timestamp>>

\* C13: the record a vault or checklist handler acts on for a selected name
\* is the record find_idea_by_name returns for that name, the one whose notes
\* or checklist were shown: save-notes leaves the new notes in that record and
\* no other record's notes changed, save-checklist leaves the ticked checklist
\* in that record, clone appends a copy of that record, and after delete that
\* record is gone.
C13_ActsOnFound ==
    [][ \A sel \in Options(ideas) :
          LET hit == find_idea_by_name(ideas, sel)
          IN  /\ \A t \in NotesInputs :
                    Commit(SaveNotes(ideas, dicts, clock, sel, t)) =>
                        /\ Len(ideas') = Len(ideas)
                        /\ ideas'[hit].notes = t
                        /\ \A j \in 1..Len(ideas) :
                              j # hit => ideas'[j].notes = ideas[j].notes
              /\ \A c \in CheckInputs :
                    (sel = checklist_select
                       /\ Commit(SaveChecklist(ideas, dicts, clock, sel, c))) =>
                        /\ Len(ideas') = Len(ideas)
                        /\ After[hit].checklist =
                               new_cl(setdefault_all(Before[hit].checklist), c)
              /\ Commit(CloneIdea(ideas, dicts, clock, sel)) =>
                    /\ Len(ideas') = Len(ideas) + 1
                    /\ ideas'[Len(ideas')].name = ideas[hit].name \o CloneSuffix
                    /\ ideas'[Len(ideas')].scores = ideas[hit].scores
                    /\ ideas'[Len(ideas')].notes = ideas[hit].notes
              /\ Commit(DeleteIdea(ideas, dicts, clock, sel)) =>
                    \A j \in 1..Len(ideas') : Ident(ideas'[j]) # Ident(ideas[hit])
      ]_vars

\* Records i and j are a source and its clone, either way round.
ClonePair(i, j) ==
    \/ ideas[j].name = ideas[i].name \o CloneSuffix
    \/ ideas[i].name = ideas[j].name \o CloneSuffix

\* A run addressed to the record named n: its launch checklist is brought up,
\* or its checklist, its notes or the record itself is saved.
AddressedStep(n) ==
    \/ SelectChecklistIdea /\ checklist_select' = n
    \/ /\ n = checklist_select
       /\ \E c \in CheckInputs : Commit(SaveChecklist(ideas, dicts, clock, n, c))
    \/ \E t \in NotesInputs : Commit(SaveNotes(ideas, dicts, clock, n, t))
    \/ \E p \in Payloads : Commit(SaveUpdate(ideas, dicts, clock, n, p))

\* C14: a source and its clone are independent: a run addressed to one of
\* them (bringing up its launch checklist, which merges the 9 default keys
\* into it; save-checklist; save-notes; save/update) changes no field of the
\* other, whose checklist and scores stay as they were.
C14_CloneIndependent ==
    [][ \A i, j \in 1..Len(ideas) :
          (/\ i # j
           /\ ClonePair(i, j)
           /\ find_idea_by_name(ideas, ideas[i].name) = i
           /\ find_exact(ideas, ideas[i].name) = i
           /\ AddressedStep(ideas[i].name))
          => /\ Len(ideas') = Len(ideas)
             /\ After[j] = Before[j]
      ]_vars

-----------------------------------------------------------------------------
(* File properties, checked under SpecFile. *)

\* C3: when the process dies during a save, ideas.json afterwards holds the
\* collection saved before or the whole new collection, never a cut-off text.
C3_CrashSafe ==
    [][ last' = "crashed" =>
          \/ file' = file
          \/ /\ file'.kind = "array"
             /\ \E o \in SavingRuns : file' = save_ideas(file, json_dump(o.ideas, o.dicts))
      ]_vars

\* C4: load_ideas never raises, whatever ideas.json is (absent, unreadable,
\* no JSON, a JSON value that is no array, a JSON array): the session gets a
\* list, which reads as the array when the file is a readable array and is
\* empty otherwise.
C4_LoadNeverRaises ==
    [][ last' \in {"loaded", "load_raised"} =>
          /\ last' = "loaded"
          /\ up'
          /\ IF file.kind = "array" /\ file.readable
             THEN Len(ideas') = Len(file.data)
             ELSE ideas' = <<>>
      ]_vars

====
